---------------------------- MODULE Spec2Model ----------------------------
(***************************************************************************)
(* Axio: evidence-retrieval assistant for mediation sessions.              *)
(*                                                                         *)
(* The module models these parts of the backend, each as a specification  *)
(* of its own over the shared variables:                                   *)
(*   - the per-session transcript buffer (services/transcript.py) with its *)
(*     persisted raw turns and process restarts      -> SpecBuf            *)
(*   - the challenge pipeline run_challenge (services/rag.py) over the     *)
(*     hybrid index, the reranker and the generation capability -> SpecRag *)
(*   - add_turn / get_turns coroutines interleaving at their awaits        *)
(*                                                    -> SpecConc          *)
(*   - the transcript websocket handler (routers/zoom.py) -> SpecWs        *)
(*   - the sliding-window splitter _split_into_chunks                      *)
(*     (services/document.py)            -> SpecChunk, SpecChunkFair       *)
(*   - ingest_document with _chunk_pages, the index upsert and the chunk   *)
(*     rows (services/document.py)                    -> SpecIngest        *)
(*                                                                         *)
(* Texts are sequences of one-character strings, so that concatenation     *)
(* with a separating space is computed and not assumed.  Turn timestamps   *)
(* are left out: no property below reads them.                             *)
(***************************************************************************)
EXTENDS Integers, Sequences, FiniteSets, TLC

VARIABLES
    transcript_turns, \* settings.transcript_turns, the window size W (default 10,
                      \* read from the environment; here any of 1..MaxWindow)
    buffers,          \* transcript._buffers: session id -> list of Turn
    db,               \* persisted raw turns: session id -> rows, oldest first
    calls,            \* history: every add_turn accepted for a session
    since,            \* history: number of add_turn calls since the buffer was last wiped
    hydrated,         \* history: the buffer holds turns replayed from the persisted rows
    n_adds,           \* history: add_turn calls so far (bounds the run)
    last_op,          \* history: the last operation and its arguments
    result,           \* value returned by the last get_turns
    openai_api_key,   \* settings.openai_api_key is set
    cohere_api_key,   \* settings.cohere_api_key is set
    sessions,         \* sessions table: session id -> [case_id, treatment]
    index,            \* the hybrid index: set of point payloads
    pc,               \* position of the run_challenge invocation
    sess,             \* session id of the running challenge
    raw_results,      \* run_challenge: raw_results
    top_results,      \* run_challenge: top_results
    gated,            \* history: the threshold gate was evaluated in this run
    ext_log,          \* history: external capability calls of this run, in order
    outcome,          \* "none" | "response" | "error"
    error,            \* the exception message when outcome = "error"
    response,         \* the ChallengeResponse when outcome = "response"
    tasks,            \* concurrent add_turn / get_turns coroutines: position and locals
    db_init,          \* history: the persisted rows at process start
    ws_msg,           \* transcript_ws: the message of the current loop iteration
    ws_sent,          \* transcript_ws: the last JSON sent to the client
    section_text,     \* _split_into_chunks: argument section_text
    chunk_size,       \* _split_into_chunks: argument chunk_size
    overlap,          \* _split_into_chunks: argument overlap
    start,            \* _split_into_chunks: loop variable start
    chunks,           \* _split_into_chunks: the list the chunks are appended to
    split_pc,         \* _split_into_chunks: "call" | "loop" | "done"
    documents,        \* relational store: ids of the rows of table documents
    chunk_rows,       \* relational store: rows of table chunks, one per chunk id
    index_points,     \* index: the points, one per point id
    raw_files,        \* raw file storage: ids of the files written
    ing               \* ingest_document: position and locals of the invocation

bufvars == <<transcript_turns, buffers, db, calls, since, hydrated, n_adds, last_op, result>>

ragvars == <<openai_api_key, cohere_api_key, sessions, index, pc, sess, raw_results,
             top_results, gated, ext_log, outcome, error, response>>

concvars == <<tasks, db_init>>

wsvars == <<ws_msg, ws_sent>>

chunkvars == <<section_text, chunk_size, overlap, start, chunks, split_pc>>

ingvars == <<documents, chunk_rows, index_points, raw_files, ing>>

extvars == <<concvars, wsvars, chunkvars, ingvars>>

vars == <<bufvars, ragvars, extvars>>

-----------------------------------------------------------------------------
(* Bounds and input sets *)

MaxWindow == 3
MaxAppends == 5

Sessions == {"s1"}
Speakers == {"Alice", "Bob"}
Texts == {<<"h">>, <<"w">>}

NoOp == [op |-> "none", session |-> "", speaker |-> "", text |-> <<>>]

MaxDocs == 2

Cases == {"c1", "c2"}
Parties == {"A", "B"}
UploadParties == {"A", "B", "X"}
Treatments == {"neutralizer", "side_by_side"}

\* relevance scores the rerank capability may return, in tenths (0.3, 0.4, 0.5)
RerankScores == {3, 4, 5}

-----------------------------------------------------------------------------
(* config.py: tunable parameters; similarity_threshold 0.4 is held in tenths *)

retrieval_top_k == 20
rerank_top_k == 5
similarity_threshold == 4

-----------------------------------------------------------------------------
(* models/challenge.py *)

\* ChallengeResponse with its field defaults
ChallengeResponse(treatment, no_evidence, summary, citations, a_ev, a_cit, b_ev, b_cit) ==
    [treatment |-> treatment, no_evidence |-> no_evidence,
     summary |-> summary, citations |-> citations,
     party_a_evidence |-> a_ev, party_a_citations |-> a_cit,
     party_b_evidence |-> b_ev, party_b_citations |-> b_cit]

NoEvidenceResponse(treatment) ==
    ChallengeResponse(treatment, TRUE, "", <<>>, "", <<>>, "", <<>>)

\* value of the variable response while no response has been returned
NoResponse == ChallengeResponse("", FALSE, "", <<>>, "", <<>>, "", <<>>)

\* a challenge request is not running: its locals hold nothing
RunCleared ==
    /\ pc = "idle"
    /\ sess = ""
    /\ raw_results = <<>>
    /\ top_results = <<>>
    /\ gated = FALSE
    /\ ext_log = <<>>
    /\ outcome = "none"
    /\ error = ""
    /\ response = NoResponse

\* the pipeline's variables while only the transcript buffer is exercised
RagIdle ==
    /\ openai_api_key = TRUE
    /\ cohere_api_key = TRUE
    /\ sessions = [s \in Sessions |-> [case_id |-> "c1", treatment |-> "neutralizer"]]
    /\ index = {}
    /\ RunCleared

-----------------------------------------------------------------------------
(* Values of the variables a specification does not exercise *)

MaxTasks == 2

Tasks == 1..MaxTasks

\* a coroutine slot no call has been started in
NoTask == [op |-> "none", session |-> "", speaker |-> "", text |-> <<>>,
           pc |-> "idle", rows |-> <<>>, result |-> <<>>]

ConcIdle ==
    /\ tasks = [t \in Tasks |-> NoTask]
    /\ db_init = <<>>

NoMsg == [json |-> FALSE, speaker |-> "", text |-> <<>>]

NoSent == [kind |-> "none", error |-> "", buffer_size |-> 0, turns |-> <<>>]

WsIdle ==
    /\ ws_msg = NoMsg
    /\ ws_sent = NoSent

ChunkIdle ==
    /\ section_text = <<>>
    /\ chunk_size = 1
    /\ overlap = 0
    /\ start = 0
    /\ chunks = <<>>
    /\ split_pc = "done"

NoIngest == [pc |-> "idle", ext |-> "", content |-> [kind |-> "empty", pages |-> <<>>],
             tokens |-> 0, doc |-> 0, pages_text |-> <<>>, chunks |-> <<>>, error |-> ""]

IngestIdle ==
    /\ documents = {}
    /\ chunk_rows = {}
    /\ index_points = {}
    /\ raw_files = {}
    /\ ing = NoIngest

ExtIdle ==
    /\ ConcIdle
    /\ WsIdle
    /\ ChunkIdle
    /\ IngestIdle

-----------------------------------------------------------------------------
(* services/transcript.py *)

Turn(speaker, text) == [speaker |-> speaker, text |-> text]

Last(s) == s[Len(s)]

Front(s) == SubSeq(s, 1, Len(s) - 1)

\* faulty variant: evicts the newest turn instead of the oldest (turns.pop())
RECURSIVE EnforceWindowPopLast(_, _)
EnforceWindowPopLast(turns, w) ==
    IF Len(turns) > w THEN EnforceWindowPopLast(Front(turns), w) ELSE turns

\* while len(turns) > settings.transcript_turns: turns.pop(0)
RECURSIVE EnforceWindow(_, _)
EnforceWindow(turns, w) ==
    IF Len(turns) > w THEN EnforceWindow(Tail(turns), w) ELSE turns

\* faulty variant: merges without the separating space
ConsolidateNoSpace(turns, speaker, text) ==
    IF turns # <<>> /\ Last(turns).speaker = speaker
    THEN Append(Front(turns), Turn(speaker, Last(turns).text \o text))
    ELSE Append(turns, Turn(speaker, text))

\* faulty variant: every turn is appended, none merged into the last one
ConsolidateAppendOnly(turns, speaker, text) == Append(turns, Turn(speaker, text))

\* the merge-or-append branch shared by add_turn and _hydrate_from_db
Consolidate(turns, speaker, text) ==
    IF turns # <<>> /\ Last(turns).speaker = speaker
    THEN Append(Front(turns), Turn(speaker, Last(turns).text \o <<" ">> \o text))
    ELSE Append(turns, Turn(speaker, text))

\* the in-memory effect of add_turn: consolidate, then _enforce_window
AddTurnBuffer(turns, speaker, text, w) ==
    EnforceWindow(Consolidate(turns, speaker, text), w)

\* storage: INSERT of one raw turn, rows kept in insertion order
SaveTranscriptTurn(rows, speaker, text) ==
    Append(rows, [speaker |-> speaker, text |-> text])

\* the replay loop of _hydrate_from_db, starting from the current buffer
RECURSIVE ReplayRows(_, _)
ReplayRows(turns, rows) ==
    IF rows = <<>> THEN turns
    ELSE ReplayRows(Consolidate(turns, Head(rows).speaker, Head(rows).text), Tail(rows))

\* _hydrate_from_db: no rows -> buffer untouched; else replay, then _enforce_window
HydrateFromDb(turns, rows, w) ==
    IF rows = <<>> THEN turns ELSE EnforceWindow(ReplayRows(turns, rows), w)

\* buffer after get_turns: hydrate only when the buffer is empty
GetTurnsBuffer(turns, rows, w) ==
    IF turns = <<>> THEN HydrateFromDb(turns, rows, w) ELSE turns

AddTurn(s, speaker, text) ==
    /\ n_adds < MaxAppends
    /\ n_adds' = n_adds + 1
    /\ buffers' = [buffers EXCEPT ![s] = AddTurnBuffer(@, speaker, text, transcript_turns)]
    /\ db' = [db EXCEPT ![s] = SaveTranscriptTurn(@, speaker, text)]
    /\ calls' = [calls EXCEPT ![s] = Append(@, Turn(speaker, text))]
    /\ since' = [since EXCEPT ![s] = @ + 1]
    /\ last_op' = [op |-> "add_turn", session |-> s, speaker |-> speaker, text |-> text]
    /\ UNCHANGED <<transcript_turns, hydrated, result, ragvars, extvars>>

GetTurns(s) ==
    /\ buffers' = [buffers EXCEPT ![s] = GetTurnsBuffer(@, db[s], transcript_turns)]
    /\ result' = buffers'[s]
    /\ hydrated' = [hydrated EXCEPT ![s] = @ \/ (buffers[s] = <<>> /\ buffers'[s] # <<>>)]
    /\ last_op' = [NoOp EXCEPT !.op = "get_turns", !.session = s]
    /\ UNCHANGED <<transcript_turns, db, calls, since, n_adds, ragvars, extvars>>

\* clear_buffer: drop the buffer and the persisted rows of the session
ClearBuffer(s) ==
    /\ calls[s] # <<>>
    /\ buffers' = [buffers EXCEPT ![s] = <<>>]
    /\ db' = [db EXCEPT ![s] = <<>>]
    /\ calls' = [calls EXCEPT ![s] = <<>>]
    /\ since' = [since EXCEPT ![s] = 0]
    /\ hydrated' = [hydrated EXCEPT ![s] = FALSE]
    /\ last_op' = [NoOp EXCEPT !.op = "clear_buffer", !.session = s]
    /\ UNCHANGED <<transcript_turns, n_adds, result, ragvars, extvars>>

\* process restart: the module-level _buffers dict is re-created empty,
\* the persisted rows survive
Restart ==
    /\ \E s \in Sessions : buffers[s] # <<>>
    /\ buffers' = [s \in Sessions |-> <<>>]
    /\ since' = [s \in Sessions |-> 0]
    /\ hydrated' = [s \in Sessions |-> FALSE]
    /\ last_op' = [NoOp EXCEPT !.op = "restart"]
    /\ UNCHANGED <<transcript_turns, db, calls, n_adds, result, ragvars, extvars>>

InitBuf ==
    /\ transcript_turns \in 1..MaxWindow
    /\ buffers = [s \in Sessions |-> <<>>]
    /\ db = [s \in Sessions |-> <<>>]
    /\ calls = [s \in Sessions |-> <<>>]
    /\ since = [s \in Sessions |-> 0]
    /\ hydrated = [s \in Sessions |-> FALSE]
    /\ n_adds = 0
    /\ last_op = NoOp
    /\ result = <<>>
    /\ RagIdle
    /\ ExtIdle

NextBuf ==
    \/ \E s \in Sessions, speaker \in Speakers, text \in Texts : AddTurn(s, speaker, text)
    \/ \E s \in Sessions : GetTurns(s)
    \/ \E s \in Sessions : ClearBuffer(s)
    \/ Restart

SpecBuf == InitBuf /\ [][NextBuf]_vars

-----------------------------------------------------------------------------
(* Properties of the transcript buffer *)

Min(a, b) == IF a < b THEN a ELSE b

LastN(s, n) == SubSeq(s, Len(s) - n + 1, Len(s))

\* the add_turn calls applied to the buffer of s since it was last wiped
Appended(s) == LastN(calls[s], since[s])

NoRepeats(turns) ==
    \A i \in 1..(Len(turns) - 1) : turns[i].speaker # turns[i + 1].speaker

\* the buffer a process that never restarts holds after the calls cs
RECURSIVE NoRestartBuffer(_, _, _)
NoRestartBuffer(turns, cs, w) ==
    IF cs = <<>> THEN turns
    ELSE NoRestartBuffer(AddTurnBuffer(turns, Head(cs).speaker, Head(cs).text, w), Tail(cs), w)

\* C1: what get_turns returns does not depend on process restarts: it is the
\* (speaker, text) sequence the same add_turn calls produce with no restart.
RestartTransparent ==
    last_op.op = "get_turns" =>
        result = NoRestartBuffer(<<>>, calls[last_op.session], transcript_turns)

\* C2: a buffer never holds more than W = transcript_turns turns; and turns
\* appended to an empty buffer with no two consecutive turns of one speaker
\* leave exactly the min(W, n) most recent of them, in append order.
WindowBound ==
    \A s \in Sessions :
        /\ Len(buffers[s]) <= transcript_turns
        /\ (~hydrated[s] /\ NoRepeats(Appended(s))) =>
               buffers[s] = LastN(Appended(s), Min(transcript_turns, since[s]))

\* C2 witness: more turns than the window holds were appended, no repeats.
WindowOverflowReached ==
    \E s \in Sessions :
        /\ ~hydrated[s]
        /\ transcript_turns >= 2
        /\ since[s] > transcript_turns
        /\ NoRepeats(Appended(s))
        /\ last_op.op = "add_turn"

\* C3: add_turn on a buffer whose last turn has the same speaker keeps the
\* number of turns and sets the last text to old text, one space, new text;
\* otherwise it adds one new last turn.  Earlier turns are unchanged, up to the
\* eviction of the oldest turn when the window is full.
ConsolidationStep ==
    [][last_op'.op = "add_turn" =>
        LET s   == last_op'.session
            sp  == last_op'.speaker
            tx  == last_op'.text
            old == buffers[s]
            new == buffers'[s]
        IN  IF old # <<>> /\ Last(old).speaker = sp
            THEN /\ Len(new) = Len(old)
                 /\ Last(new).speaker = sp
                 /\ Last(new).text = Last(old).text \o <<" ">> \o tx
                 /\ \A i \in 1..(Len(old) - 1) : new[i] = old[i]
            ELSE /\ Len(new) = Min(Len(old) + 1, transcript_turns)
                 /\ Last(new).speaker = sp
                 /\ Last(new).text = tx
                 /\ \A i \in 1..(Len(new) - 1) : new[i] = old[i + (Len(old) + 1 - Len(new))]
    ]_vars

\* C3 witness: ("Alice","h"), ("Alice","w"), ("Bob","h") were appended.
ConsolidatedReached ==
    /\ last_op.op = "add_turn"
    /\ buffers["s1"] = <<Turn("Alice", <<"h", " ", "w">>), Turn("Bob", <<"h">>)>>

-----------------------------------------------------------------------------
(* Calls that may raise: a returned value or the raised exception *)

Ret(v) == [raised |-> FALSE, err |-> "", value |-> v]

Exc(e) == [raised |-> TRUE, err |-> e, value |-> <<>>]

-----------------------------------------------------------------------------
(* services/llm.py.  The OpenAI API is the environment: api is what the     *)
(* request does, "ok" (a completion with content), "none" (a completion     *)
(* whose content is None) or "fail" (exception, timeout, non-2xx status).   *)

EmbedApi == {"ok", "fail"}
ChatApi == {"ok", "none", "fail"}

\* embed_query -> embed_texts -> _get_client
EmbedQuery(key, api) ==
    IF ~key THEN Exc("OPENAI_API_KEY is not set")
    ELSE IF api = "fail" THEN Exc("embedding request failed")
    ELSE Ret("embedding")

\* chat: _get_client, the completion request, the content is None check
Chat(key, api) ==
    IF ~key THEN Exc("OPENAI_API_KEY is not set")
    ELSE IF api = "fail" THEN Exc("chat request failed")
    ELSE IF api = "none" THEN Exc("LLM returned empty response")
    ELSE Ret("completion")

-----------------------------------------------------------------------------
(* storage/vector.py.  A point is the payload written by upsert_chunks; one *)
(* chunk per document, so chunk_id is the document number.                  *)

Point(doc, case_id, party) ==
    [chunk_id |-> doc, doc_id |-> doc, case_id |-> case_id, party |-> party]

\* Filter(must=[FieldCondition(key="case_id", match=MatchValue(value=case_id))])
CaseFilter(case_id) == [key |-> "case_id", value |-> case_id]

NoFilter == [key |-> "", value |-> ""]

Matches(filter, point) == filter.key = "" \/ point[filter.key] = filter.value

\* the points one Prefetch of the query may draw from
Prefetch(points, filter) == {p \in points : Matches(filter, p)}

\* Prefetch(query=query_embedding, using="dense", filter=case_filter)
DensePrefetch(points, case_id) == Prefetch(points, CaseFilter(case_id))

\* faulty variant: the lexical sub-query is sent without the case filter
SparsePrefetchUnfiltered(points, case_id) == Prefetch(points, NoFilter)

\* Prefetch(query=sparse_query, using="bm25", filter=case_filter)
SparsePrefetch(points, case_id) == Prefetch(points, CaseFilter(case_id))

\* {"score": pt.score, **pt.payload}: the RRF score is at most 2/61, 0 in tenths
SearchResult(point) ==
    [score |-> 0, chunk_id |-> point.chunk_id, doc_id |-> point.doc_id,
     case_id |-> point.case_id, party |-> point.party]

\* the points of a set as results, by ascending chunk id
RECURSIVE RankedResults(_)
RankedResults(points) ==
    IF points = {} THEN <<>>
    ELSE LET first == CHOOSE p \in points : \A q \in points : p.chunk_id <= q.chunk_id
         IN  <<SearchResult(first)>> \o RankedResults(points \ {first})

\* hybrid_search: what the fused query may return, any at most top_k of the
\* points the two prefetches draw from
HybridSearch(points, case_id, top_k) ==
    {RankedResults(hits) :
        hits \in {h \in SUBSET (DensePrefetch(points, case_id) \cup SparsePrefetch(points, case_id)) :
                    Cardinality(h) <= top_k}}

-----------------------------------------------------------------------------
(* services/reranker.py.  The Cohere API is the environment: http.status is *)
(* "ok" or "fail" (timeout, non-2xx), http.items the results of the reply.  *)

\* the replies to a request for n documents: at most top_n items, distinct
\* indices; index n is out of range
RerankItems(n, top_n) ==
    UNION {
        {[i \in 1..k |-> [index |-> idx[i], relevance_score |-> sc[i]]] :
            idx \in {f \in [1..k -> 0..n] : \A i, j \in 1..k : i # j => f[i] # f[j]},
            sc \in [1..k -> RerankScores]}
        : k \in 0..(IF n < top_n THEN n ELSE top_n)}

RerankHttp(n, top_n) ==
    {[status |-> "fail", items |-> <<>>]}
        \cup {[status |-> "ok", items |-> it] : it \in RerankItems(n, top_n)}

\* entry = dict(results[idx]); entry["rerank_score"] = item["relevance_score"]
RerankedEntry(r, relevance_score) ==
    [k \in DOMAIN r \cup {"rerank_score"} |->
        IF k = "rerank_score" THEN relevance_score ELSE r[k]]

\* the loop over data.get("results", [])
RECURSIVE Reranked(_, _)
Reranked(results, items) ==
    IF items = <<>> THEN <<>>
    ELSE LET item == Head(items)
             rest == Reranked(results, Tail(items))
         IN  IF item.index < Len(results)
             THEN <<RerankedEntry(results[item.index + 1], item.relevance_score)>> \o rest
             ELSE rest

\* faulty variant: a failed request is swallowed and no result is returned
CohereRerankSwallow(results, top_k, http) ==
    IF results = <<>> THEN Ret(<<>>)
    ELSE IF http.status # "ok" THEN Ret(<<>>)
    ELSE Ret(Reranked(results, http.items))

\* _cohere_rerank
CohereRerank(results, top_k, http) ==
    IF results = <<>> THEN Ret(<<>>)
    ELSE IF http.status # "ok" THEN Exc("rerank request failed")
    ELSE Ret(Reranked(results, http.items))

\* faulty variant: without a credential the candidates pass through unreranked
RerankSkip(results, top_k, key, http) ==
    IF ~key THEN Ret(SubSeq(results, 1, IF Len(results) < top_k THEN Len(results) ELSE top_k))
    ELSE CohereRerank(results, top_k, http)

\* rerank
Rerank(results, top_k, key, http) ==
    IF ~key THEN Exc("COHERE_API_KEY is not set")
    ELSE CohereRerank(results, top_k, http)

\* the request is sent: credential present and at least one document
RerankRequestSent(results, key) == key /\ results # <<>>

-----------------------------------------------------------------------------
(* services/rag.py *)

\* transcript.get_recent_turns: the full current window of the session
GetRecentTurns(s) == buffers[s]

\* if not buffer_turns: raise ValueError("no transcript data available")
CheckTranscript(turns) ==
    IF turns = <<>> THEN Exc("no transcript data available") ELSE Ret(turns)

\* faulty variant: the empty result of the search is not special-cased
NoCandidatesNever(raw) == FALSE

\* if not raw_results
NoCandidates(raw) == raw = <<>>

\* "rerank_score" if top_results and "rerank_score" in top_results[0] else "score"
ScoreKey(results) ==
    IF results # <<>> /\ "rerank_score" \in DOMAIN results[1] THEN "rerank_score" ELSE "score"

\* r.get(score_key, 0)
GetScore(r, key) == IF key \in DOMAIN r THEN r[key] ELSE 0

\* faulty variant: one candidate below the threshold is enough for "no evidence"
AnyBelowThreshold(results) ==
    \E i \in 1..Len(results) : GetScore(results[i], ScoreKey(results)) < similarity_threshold

\* all(r.get(score_key, 0) < settings.similarity_threshold for r in top_results)
AllBelowThreshold(results) ==
    \A i \in 1..Len(results) : GetScore(results[i], ScoreKey(results)) < similarity_threshold

\* _build_citations: one Citation per result, in order (the chunk id stands
\* for chunk_id, doc_name, page and snippet, all copied from the same result)
BuildCitations(results) == [i \in 1..Len(results) |-> [chunk_id |-> results[i].chunk_id]]

\* _format_evidence: one tagged block per result, in order
FormatEvidence(results) == [i \in 1..Len(results) |-> results[i].chunk_id]

\* faulty variant: the party filter is not applied
PartyResultsAll(results, party) == results

\* [r for r in results if r.get("party") == party]
PartyResults(results, party) == SelectSeq(results, LAMBDA r : r.party = party)

NoPartyEvidence(party) ==
    IF party = "A" THEN "no relevant evidence from Party A documents."
    ELSE "no relevant evidence from Party B documents."

\* _generate_neutralizer
GenerateNeutralizer(results, key, api) ==
    LET summary == Chat(key, api)
    IN  IF summary.raised THEN Exc(summary.err)
        ELSE Ret(ChallengeResponse("neutralizer", FALSE, summary.value,
                                   BuildCitations(results), "", <<>>, "", <<>>))

\* gen_a / gen_b
GenParty(party, text, key, api) ==
    IF text = <<>> THEN Ret(NoPartyEvidence(party)) ELSE Chat(key, api)

\* _generate_side_by_side; when both generations raise, gather re-raises the
\* one that raised first
GenerateSideBySide(results, key, api_a, api_b, first) ==
    LET party_a == PartyResults(results, "A")
        party_b == PartyResults(results, "B")
        a == GenParty("A", FormatEvidence(party_a), key, api_a)
        b == GenParty("B", FormatEvidence(party_b), key, api_b)
    IN  IF a.raised /\ (~b.raised \/ first = "A") THEN Exc(a.err)
        ELSE IF b.raised THEN Exc(b.err)
        ELSE Ret(ChallengeResponse("side_by_side", FALSE, "", <<>>,
                                   a.value, BuildCitations(party_a),
                                   b.value, BuildCitations(party_b)))

LogEntry(call, party, evidence, ok) ==
    [call |-> call, party |-> party, evidence |-> evidence, ok |-> ok]

\* the generation requests _generate_side_by_side sends
SideBySideChats(results, api_a, api_b) ==
    LET a_text == FormatEvidence(PartyResults(results, "A"))
        b_text == FormatEvidence(PartyResults(results, "B"))
    IN  (IF a_text # <<>> THEN <<LogEntry("chat", "A", a_text, api_a = "ok")>> ELSE <<>>)
        \o (IF b_text # <<>> THEN <<LogEntry("chat", "B", b_text, api_b = "ok")>> ELSE <<>>)

\* the request ends with an exception
Raise(e) ==
    /\ pc' = "done"
    /\ outcome' = "error"
    /\ error' = e
    /\ response' = NoResponse

\* the request ends with a response
Return(r) ==
    /\ pc' = "done"
    /\ outcome' = "response"
    /\ error' = ""
    /\ response' = r

Continue(next) ==
    /\ pc' = next
    /\ UNCHANGED <<outcome, error, response>>

\* run_challenge up to the first await: the buffer check
StartChallenge(s) ==
    /\ pc = "idle"
    /\ sess' = s
    /\ LET buffer_turns == CheckTranscript(GetRecentTurns(s))
       IN  IF buffer_turns.raised THEN Raise(buffer_turns.err) ELSE Continue("embed")
    /\ UNCHANGED <<bufvars, extvars, openai_api_key, cohere_api_key, sessions, index,
                   raw_results, top_results, gated, ext_log>>

\* step 1: query_embedding = await embed_query(query_text)
EmbedStep ==
    /\ pc = "embed"
    /\ \E api \in EmbedApi :
        LET r == EmbedQuery(openai_api_key, api)
        IN  /\ ext_log' = IF openai_api_key
                          THEN Append(ext_log, LogEntry("embed", "", <<>>, api = "ok"))
                          ELSE ext_log
            /\ IF r.raised THEN Raise(r.err) ELSE Continue("search")
    /\ UNCHANGED <<bufvars, extvars, openai_api_key, cohere_api_key, sessions, index, sess,
                   raw_results, top_results, gated>>

\* step 2: the index query raises
SearchFails ==
    /\ pc = "search"
    /\ ext_log' = Append(ext_log, LogEntry("search", "", <<>>, FALSE))
    /\ Raise("index query failed")
    /\ UNCHANGED <<bufvars, extvars, openai_api_key, cohere_api_key, sessions, index, sess,
                   raw_results, top_results, gated>>

\* step 2: raw_results = await hybrid_search(...), and the empty-result return
SearchStep ==
    /\ pc = "search"
    /\ \E raw \in HybridSearch(index, sessions[sess].case_id, retrieval_top_k) :
        /\ raw_results' = raw
        /\ IF NoCandidates(raw)
           THEN Return(NoEvidenceResponse(sessions[sess].treatment))
           ELSE Continue("rerank")
    /\ ext_log' = Append(ext_log, LogEntry("search", "", <<>>, TRUE))
    /\ UNCHANGED <<bufvars, extvars, openai_api_key, cohere_api_key, sessions, index, sess,
                   top_results, gated>>

\* step 3: top_results = await rerank(query_text, raw_results, top_k=rerank_top_k)
RerankStep ==
    /\ pc = "rerank"
    /\ \E http \in RerankHttp(Len(raw_results), rerank_top_k) :
        LET r == Rerank(raw_results, rerank_top_k, cohere_api_key, http)
        IN  /\ ext_log' = IF RerankRequestSent(raw_results, cohere_api_key)
                          THEN Append(ext_log, LogEntry("rerank", "", <<>>, http.status = "ok"))
                          ELSE ext_log
            /\ IF r.raised
               THEN Raise(r.err) /\ UNCHANGED top_results
               ELSE Continue("gate") /\ top_results' = r.value
    /\ UNCHANGED <<bufvars, extvars, openai_api_key, cohere_api_key, sessions, index, sess,
                   raw_results, gated>>

\* step 4: threshold gate
GateStep ==
    /\ pc = "gate"
    /\ gated' = TRUE
    /\ IF AllBelowThreshold(top_results)
       THEN Return(NoEvidenceResponse(sessions[sess].treatment))
       ELSE Continue("generate")
    /\ UNCHANGED <<bufvars, extvars, openai_api_key, cohere_api_key, sessions, index, sess,
                   raw_results, top_results, ext_log>>

\* step 5, treatment neutralizer
GenerateNeutralizerStep ==
    /\ pc = "generate"
    /\ sessions[sess].treatment = "neutralizer"
    /\ \E api \in ChatApi :
        LET r == GenerateNeutralizer(top_results, openai_api_key, api)
        IN  /\ ext_log' = Append(ext_log,
                    LogEntry("chat", "all", FormatEvidence(top_results), api = "ok"))
            /\ IF r.raised THEN Raise(r.err) ELSE Return(r.value)
    /\ UNCHANGED <<bufvars, extvars, openai_api_key, cohere_api_key, sessions, index, sess,
                   raw_results, top_results, gated>>

\* step 5, treatment side_by_side
GenerateSideBySideStep ==
    /\ pc = "generate"
    /\ sessions[sess].treatment # "neutralizer"
    /\ \E api_a \in ChatApi, api_b \in ChatApi, first \in Parties :
        LET r == GenerateSideBySide(top_results, openai_api_key, api_a, api_b, first)
        IN  /\ ext_log' = ext_log \o SideBySideChats(top_results, api_a, api_b)
            /\ IF r.raised THEN Raise(r.err) ELSE Return(r.value)
    /\ UNCHANGED <<bufvars, extvars, openai_api_key, cohere_api_key, sessions, index, sess,
                   raw_results, top_results, gated>>

\* the request is over; the next one starts with fresh locals
Finish ==
    /\ pc = "done"
    /\ pc' = "idle"
    /\ sess' = ""
    /\ raw_results' = <<>>
    /\ top_results' = <<>>
    /\ gated' = FALSE
    /\ ext_log' = <<>>
    /\ outcome' = "none"
    /\ error' = ""
    /\ response' = NoResponse
    /\ UNCHANGED <<bufvars, extvars, openai_api_key, cohere_api_key, sessions, index>>

\* routers/intake.py upload_document -> ingest_document -> upsert_chunks:
\* a document of a case and party is ingested under a fresh document id
UploadDocument(case_id, party) ==
    /\ IF party \in Parties /\ Cardinality(index) < MaxDocs
       THEN index' = index \cup {Point(Cardinality(index) + 1, case_id, party)}
       ELSE UNCHANGED index
    /\ UNCHANGED <<bufvars, extvars, openai_api_key, cohere_api_key, sessions, pc, sess,
                   raw_results, top_results, gated, ext_log, outcome, error, response>>

\* the state at startup, after any settings, sessions and transcript: the
\* buffer of a session is empty or holds one turn
InitRag ==
    /\ transcript_turns = MaxWindow
    /\ buffers \in [Sessions -> {<<>>, <<Turn("Alice", <<"h">>)>>}]
    /\ db = buffers
    /\ calls = buffers
    /\ since = [s \in Sessions |-> Len(buffers[s])]
    /\ hydrated = [s \in Sessions |-> FALSE]
    /\ n_adds = MaxAppends
    /\ last_op = NoOp
    /\ result = <<>>
    /\ openai_api_key \in BOOLEAN
    /\ cohere_api_key \in BOOLEAN
    /\ sessions \in [Sessions -> [case_id : Cases, treatment : Treatments]]
    /\ index = {}
    /\ RunCleared
    /\ ExtIdle

NextRag ==
    \/ \E s \in Sessions : StartChallenge(s)
    \/ EmbedStep
    \/ SearchFails
    \/ SearchStep
    \/ RerankStep
    \/ GateStep
    \/ GenerateNeutralizerStep
    \/ GenerateSideBySideStep
    \/ Finish
    \/ \E case_id \in Cases, party \in UploadParties : UploadDocument(case_id, party)

SpecRag == InitRag /\ [][NextRag]_vars

-----------------------------------------------------------------------------
(* Properties of the challenge pipeline *)

Treatment == sessions[sess].treatment

ChunkIds(results) == {results[i].chunk_id : i \in 1..Len(results)}

\* the generation requests of the run
ChatCalls == {i \in 1..Len(ext_log) : ext_log[i].call = "chat"}

\* an external call of the run completed successfully
Completed(call, before) ==
    \E j \in 1..(before - 1) : ext_log[j].call = call /\ ext_log[j].ok

\* the chunk ids given to the generation capability as evidence
SynthesisInput == UNION {{ext_log[i].evidence[k] : k \in 1..Len(ext_log[i].evidence)} : i \in ChatCalls}

\* the chunk ids a response cites
Cited(r) ==
    {c.chunk_id : c \in {r.citations[i] : i \in 1..Len(r.citations)}
                     \cup {r.party_a_citations[i] : i \in 1..Len(r.party_a_citations)}
                     \cup {r.party_b_citations[i] : i \in 1..Len(r.party_b_citations)}}

IsReranked(r) == "rerank_score" \in DOMAIN r

SomeAtThreshold ==
    \E i \in 1..Len(top_results) :
        IsReranked(top_results[i]) /\ top_results[i].rerank_score >= similarity_threshold

\* C4: the relevance gate is all-or-nothing.  If every reranked candidate is
\* strictly below the threshold the run returns the no-evidence response and
\* makes no generation call; if one candidate is at or above the threshold,
\* all reranked candidates, those below it too, are given to synthesis and cited.
GateAllOrNothing ==
    gated =>
        IF SomeAtThreshold
        THEN /\ pc \in {"generate", "done"}
             /\ pc = "done" =>
                    /\ SynthesisInput = ChunkIds(top_results)
                    /\ ~(outcome = "response" /\ response.no_evidence)
                    /\ outcome = "response" => Cited(response) = ChunkIds(top_results)
        ELSE /\ pc = "done"
             /\ outcome = "response"
             /\ response.no_evidence
             /\ ChatCalls = {}

\* C4 witness: a response citing a candidate below the threshold.
MixedScoresCited ==
    /\ pc = "done"
    /\ outcome = "response"
    /\ ~response.no_evidence
    /\ \E i, j \in 1..Len(top_results) :
        /\ top_results[i].rerank_score < similarity_threshold
        /\ top_results[j].rerank_score >= similarity_threshold
        /\ top_results[i].chunk_id \in Cited(response)

\* C5: a challenge for a session without transcript data (empty buffer) does
\* not fail: it returns the no-evidence response.
EmptyTranscriptNoEvidence ==
    (pc = "done" /\ buffers[sess] = <<>>) =>
        (outcome = "response" /\ response.no_evidence)

NoRerankerFailsClosed ==
    /\ (~cohere_api_key /\ raw_results # <<>>) =>
            /\ pc \in {"rerank", "done"}
            /\ ~gated
            /\ ChatCalls = {}
            /\ pc = "done" => (outcome = "error" /\ error = "COHERE_API_KEY is not set")
    /\ (outcome = "response" /\ raw_results # <<>>) =>
            /\ Completed("rerank", Len(ext_log) + 1)
            /\ \A i \in 1..Len(top_results) : IsReranked(top_results[i])

\* C7 witness: candidates were found and no credential is configured.
NoRerankerReached ==
    /\ pc = "done"
    /\ ~cohere_api_key
    /\ raw_results # <<>>
    /\ outcome = "error"

\* C8: a search that returns no candidate ends the run with the no-evidence
\* response, every other field at its default, and neither rerank nor
\* generation is called; generation is called only after the search and the
\* rerank of the run have completed.
ZeroCandidatesNoEvidence ==
    /\ (pc = "done" /\ Completed("search", Len(ext_log) + 1) /\ raw_results = <<>>) =>
            /\ outcome = "response"
            /\ response = [NoResponse EXCEPT !.treatment = Treatment, !.no_evidence = TRUE]
            /\ \A i \in 1..Len(ext_log) : ext_log[i].call \notin {"rerank", "chat"}
    /\ \A i \in ChatCalls : Completed("search", i) /\ Completed("rerank", i)

\* C8 witness: the index holds points, the search returned none.
ZeroCandidatesReached ==
    /\ pc = "done"
    /\ index # {}
    /\ Completed("search", Len(ext_log) + 1)
    /\ raw_results = <<>>
    /\ outcome = "response"

PartyEvidence(r, party) == IF party = "A" THEN r.party_a_evidence ELSE r.party_b_evidence

PartyCitations(r, party) == IF party = "A" THEN r.party_a_citations ELSE r.party_b_citations

\* the gated results of a party, in gate order
OfParty(party) == SelectSeq(top_results, LAMBDA r : r.party = party)

\* C9: side-by-side mode, per party P.  With no gated result of P, no
\* generation call is made for P, and the response has P's fixed no-evidence
\* summary and no citation for P; otherwise P's citations are the gated
\* results of P, in gate order, and none of the other party.
SideBySideIsolation ==
    (pc = "done" /\ gated /\ SomeAtThreshold /\ Treatment = "side_by_side") =>
        \A party \in Parties :
            /\ \A i \in ChatCalls :
                ext_log[i].party = party =>
                    /\ OfParty(party) # <<>>
                    /\ ext_log[i].evidence = [k \in 1..Len(OfParty(party)) |-> OfParty(party)[k].chunk_id]
            /\ outcome = "response" =>
                /\ OfParty(party) = <<>> =>
                    /\ PartyEvidence(response, party) =
                           "no relevant evidence from Party " \o party \o " documents."
                    /\ PartyCitations(response, party) = <<>>
                /\ PartyCitations(response, party) =
                       [k \in 1..Len(OfParty(party)) |-> [chunk_id |-> OfParty(party)[k].chunk_id]]
                /\ \A k \in 1..Len(PartyCitations(response, party)) :
                       \A p \in index :
                           p.chunk_id = PartyCitations(response, party)[k].chunk_id => p.party = party

\* C9 witness: only Party A evidence passed the gate.
OnlyPartyAReached ==
    /\ pc = "done"
    /\ outcome = "response"
    /\ Treatment = "side_by_side"
    /\ OfParty("A") # <<>>
    /\ OfParty("B") = <<>>
    /\ response.party_b_evidence = "no relevant evidence from Party B documents."
    /\ \E p \in index : p.party = "B"

\* C10: case isolation.  Every candidate hybrid_search returns for a session,
\* and every chunk a response cites, is a chunk of the session's case.
CaseIsolation ==
    /\ \A i \in 1..Len(raw_results) : raw_results[i].case_id = sessions[sess].case_id
    /\ outcome = "response" =>
            \A id \in Cited(response) :
                \E p \in index : p.chunk_id = id /\ p.case_id = sessions[sess].case_id

\* C10 witness: the index holds a chunk of another case and the response cites.
OtherCaseIndexed ==
    /\ pc = "done"
    /\ outcome = "response"
    /\ Cited(response) # {}
    /\ \E p \in index : p.case_id # sessions[sess].case_id

-----------------------------------------------------------------------------
(* services/transcript.py under asyncio: several add_turn / get_turns        *)
(* coroutines on one event loop.  A coroutine runs without interruption      *)
(* between two awaits; the awaits are the persistence write of add_turn and  *)
(* the row fetch of _hydrate_from_db.                                        *)

\* rows with which a process may find the store when it starts
PersistedRows == {<<>>, <<Turn("Alice", <<"h">>)>>}

\* add_turn up to its await: the buffer is consolidated and truncated
AddTurnCall(t, s, speaker, text) ==
    /\ tasks[t].pc = "idle"
    /\ buffers' = [buffers EXCEPT ![s] = AddTurnBuffer(@, speaker, text, transcript_turns)]
    /\ tasks' = [tasks EXCEPT ![t] = [NoTask EXCEPT !.op = "add_turn", !.session = s,
                                          !.speaker = speaker, !.text = text, !.pc = "save"]]
    /\ UNCHANGED <<transcript_turns, db, calls, since, hydrated, n_adds, last_op, result,
                   db_init, ragvars, wsvars, chunkvars, ingvars>>

\* await save_transcript_turn(...) completes: the raw turn is persisted
AddTurnSaved(t) ==
    /\ tasks[t].pc = "save"
    /\ db' = [db EXCEPT ![tasks[t].session] =
                 SaveTranscriptTurn(@, tasks[t].speaker, tasks[t].text)]
    /\ tasks' = [tasks EXCEPT ![t].pc = "done"]
    /\ UNCHANGED <<transcript_turns, buffers, calls, since, hydrated, n_adds, last_op,
                   result, db_init, ragvars, wsvars, chunkvars, ingvars>>

\* get_turns up to its await: a populated buffer is returned at once,
\* an empty one sends the coroutine into _hydrate_from_db
GetTurnsCall(t, s) ==
    /\ tasks[t].pc = "idle"
    /\ tasks' = [tasks EXCEPT ![t] =
                    IF buffers[s] # <<>>
                    THEN [NoTask EXCEPT !.op = "get_turns", !.session = s,
                                        !.pc = "done", !.result = buffers[s]]
                    ELSE [NoTask EXCEPT !.op = "get_turns", !.session = s, !.pc = "fetch"]]
    /\ UNCHANGED <<bufvars, db_init, ragvars, wsvars, chunkvars, ingvars>>

\* the store answers get_transcript_turns with the rows it holds now
HydrateFetched(t) ==
    /\ tasks[t].pc = "fetch"
    /\ tasks' = [tasks EXCEPT ![t].rows = db[tasks[t].session], ![t].pc = "replay"]
    /\ UNCHANGED <<bufvars, db_init, ragvars, wsvars, chunkvars, ingvars>>

\* _hydrate_from_db resumes: the rows are replayed onto the buffer as it is
\* now, the window is enforced and get_turns returns a copy of the buffer
HydrateReplay(t) ==
    /\ tasks[t].pc = "replay"
    /\ LET s == tasks[t].session
       IN  /\ buffers' = [buffers EXCEPT ![s] =
                             HydrateFromDb(@, tasks[t].rows, transcript_turns)]
           /\ tasks' = [tasks EXCEPT ![t].result = buffers'[s], ![t].pc = "done"]
    /\ UNCHANGED <<transcript_turns, db, calls, since, hydrated, n_adds, last_op, result,
                   db_init, ragvars, wsvars, chunkvars, ingvars>>

InitConc ==
    /\ transcript_turns \in 1..MaxWindow
    /\ buffers = [s \in Sessions |-> <<>>]
    /\ db \in [Sessions -> PersistedRows]
    /\ db_init = db
    /\ calls = [s \in Sessions |-> <<>>]
    /\ since = [s \in Sessions |-> 0]
    /\ hydrated = [s \in Sessions |-> FALSE]
    /\ n_adds = 0
    /\ last_op = NoOp
    /\ result = <<>>
    /\ tasks = [t \in Tasks |-> NoTask]
    /\ RagIdle
    /\ WsIdle
    /\ ChunkIdle
    /\ IngestIdle

NextConc ==
    \/ \E t \in Tasks, s \in Sessions, speaker \in Speakers, text \in Texts :
           AddTurnCall(t, s, speaker, text)
    \/ \E t \in Tasks : AddTurnSaved(t)
    \/ \E t \in Tasks, s \in Sessions : GetTurnsCall(t, s)
    \/ \E t \in Tasks : HydrateFetched(t)
    \/ \E t \in Tasks : HydrateReplay(t)

SpecConc == InitConc /\ [][NextConc]_vars

-----------------------------------------------------------------------------
(* Properties of the interleaved transcript calls *)

\* the calls started on session s
TasksOf(s) == {t \in Tasks : tasks[t].op # "none" /\ tasks[t].session = s}

\* all orders in which the calls of the set ts can be run one after another
RECURSIVE SerialOrders(_)
SerialOrders(ts) ==
    IF ts = {} THEN {<<>>}
    ELSE UNION {{<<t>> \o rest : rest \in SerialOrders(ts \ {t})} : t \in ts}

\* buffer and rows after the calls of order are run to completion one at a time
RECURSIVE SerialRun(_, _, _)
SerialRun(turns, rows, order) ==
    IF order = <<>> THEN [turns |-> turns, rows |-> rows]
    ELSE LET c == tasks[Head(order)]
         IN  IF c.op = "add_turn"
             THEN SerialRun(AddTurnBuffer(turns, c.speaker, c.text, transcript_turns),
                            SaveTranscriptTurn(rows, c.speaker, c.text), Tail(order))
             ELSE SerialRun(GetTurnsBuffer(turns, rows, transcript_turns), rows, Tail(order))

Quiescent == \A t \in Tasks : tasks[t].pc \in {"idle", "done"}

\* C11: once the interleaved add_turn and get_turns calls of a session have
\* completed, its buffer is the buffer some serial order of the same calls
\* leaves, started from the same empty buffer and the same persisted rows.
SerialEquivalent ==
    Quiescent =>
        \A s \in Sessions :
            \E order \in SerialOrders(TasksOf(s)) :
                buffers[s] = SerialRun(<<>>, db_init[s], order).turns

\* the buffer _hydrate_from_db builds from rows on an empty buffer
Rebuild(rows) == EnforceWindow(ReplayRows(<<>>, rows), transcript_turns)

\* C16: with no add_turn issued, every get_turns returns the persisted rows
\* replayed oldest-first through merge-on-append and truncated to the window,
\* however many get_turns calls are made (no replay lands on a populated buffer).
RehydrationIdempotent ==
    (\A t \in Tasks : tasks[t].op # "add_turn") =>
        \A t \in Tasks :
            (tasks[t].op = "get_turns" /\ tasks[t].pc = "done") =>
                tasks[t].result = Rebuild(db_init[tasks[t].session])

\* C20: in no state does a session's buffer hold two adjacent turns of the
\* same speaker, whatever add_turn calls, front evictions and rehydrations
\* produced it.
NoAdjacentSameSpeaker == \A s \in Sessions : NoRepeats(buffers[s])

\* C20 witness: a buffer of at least two turns rebuilt by a rehydration from
\* rows that overflow the window and hold consecutive turns of one speaker.
RepeatsRehydratedReached ==
    \E s \in Sessions :
        /\ hydrated[s]
        /\ Len(buffers[s]) >= 2
        /\ Len(db[s]) > transcript_turns
        /\ ~NoRepeats(db[s])

-----------------------------------------------------------------------------
(* routers/zoom.py: transcript_ws, one connection at a time *)

MaxMessages == 4

\* characters str.strip() removes
Whitespace == {" ", "\n"}

RECURSIVE LStrip(_)
LStrip(text) ==
    IF text # <<>> /\ Head(text) \in Whitespace THEN LStrip(Tail(text)) ELSE text

RECURSIVE RStrip(_)
RStrip(text) ==
    IF text # <<>> /\ Last(text) \in Whitespace THEN RStrip(Front(text)) ELSE text

\* str.strip()
Strip(text) == RStrip(LStrip(text))

\* faulty variant: the text is tested without stripping it (if not text)
EmptyTextNoStrip(text) == text = <<>>

\* if not text.strip()
EmptyText(text) == Strip(text) = <<>>

\* texts a client may send; a message may also leave out either key
WsTexts == {<<>>, <<" ">>, <<"\n", " ">>, <<"h">>, <<" ", "w">>}

WsMessages ==
    [speaker : Speakers, text : WsTexts] \cup [speaker : Speakers] \cup [text : WsTexts]

\* dict.get(key, default)
Get(msg, key, default) == IF key \in DOMAIN msg THEN msg[key] ELSE default

\* one iteration of the receive loop on a message that parses as a JSON object
TranscriptWs(s, msg) ==
    LET speaker == Get(msg, "speaker", "Unknown")
        text    == Get(msg, "text", <<>>)
    IN  /\ n_adds < MaxMessages
        /\ ws_msg' = [json |-> TRUE, speaker |-> speaker, text |-> text]
        /\ IF EmptyText(text)
           THEN /\ ws_sent' = [NoSent EXCEPT !.kind = "error", !.error = "empty text"]
                /\ UNCHANGED <<buffers, db, calls, since, n_adds, result>>
           ELSE LET added == AddTurnBuffer(buffers[s], speaker, text, transcript_turns)
                    rows  == SaveTranscriptTurn(db[s], speaker, text)
                    turns == GetTurnsBuffer(added, rows, transcript_turns)
                IN  /\ buffers' = [buffers EXCEPT ![s] = turns]
                    /\ db' = [db EXCEPT ![s] = rows]
                    /\ calls' = [calls EXCEPT ![s] = Append(@, Turn(speaker, text))]
                    /\ since' = [since EXCEPT ![s] = @ + 1]
                    /\ n_adds' = n_adds + 1
                    /\ result' = turns
                    /\ ws_sent' = [NoSent EXCEPT !.kind = "ok", !.buffer_size = Len(turns),
                                                 !.turns = turns]
        /\ UNCHANGED <<transcript_turns, hydrated, last_op, concvars, ragvars, chunkvars,
                       ingvars>>

\* the received data is not a JSON object: the exception closes the socket
TranscriptWsBadData ==
    /\ ws_sent.kind # "close"
    /\ ws_msg' = NoMsg
    /\ ws_sent' = [NoSent EXCEPT !.kind = "close", !.error = "1011"]
    /\ UNCHANGED <<bufvars, concvars, ragvars, chunkvars, ingvars>>

InitWs ==
    /\ transcript_turns \in 1..MaxWindow
    /\ buffers = [s \in Sessions |-> <<>>]
    /\ db = [s \in Sessions |-> <<>>]
    /\ calls = [s \in Sessions |-> <<>>]
    /\ since = [s \in Sessions |-> 0]
    /\ hydrated = [s \in Sessions |-> FALSE]
    /\ n_adds = 0
    /\ last_op = NoOp
    /\ result = <<>>
    /\ RagIdle
    /\ ConcIdle
    /\ WsIdle
    /\ ChunkIdle
    /\ IngestIdle

NextWs ==
    \/ \E s \in Sessions, msg \in WsMessages : TranscriptWs(s, msg)
    \/ TranscriptWsBadData

SpecWs == InitWs /\ [][NextWs]_vars

\* the text holds nothing but whitespace
Blank(text) == \A i \in 1..Len(text) : text[i] \in Whitespace

\* C17: a message whose text is empty or whitespace-only is answered with the
\* error "empty text" and leaves the buffer and the persisted rows as they were.
BlankAppendRejected ==
    [][(ws_msg'.json /\ Blank(ws_msg'.text)) =>
          /\ ws_sent'.kind = "error"
          /\ ws_sent'.error = "empty text"
          /\ buffers' = buffers
          /\ db' = db
      ]_vars

\* C17 witness: a whitespace-only text was rejected on a populated buffer.
BlankRejectedReached ==
    /\ ws_msg.json
    /\ ws_msg.text = <<" ">>
    /\ ws_sent.kind = "error"
    /\ buffers["s1"] # <<>>

-----------------------------------------------------------------------------
(* services/document.py: _split_into_chunks                                  *)
(* Offsets are Python's: 0-based, text[a:b] holds the characters a .. b-1.   *)
(* A chunk id "{doc}:{page}:{start}-{end}" is held as <<doc, page, start,    *)
(* end>>: the format separates its four fields unambiguously.                *)

\* the sentence-break search runs only on windows longer than this
break_min_len == 50

MaxShort == 4
MaxSmallChunk == 3
LongRun == 30

Max(a, b) == IF a > b THEN a ELSE b

\* text[a:b] for 0 <= a <= b <= len(text)
Slice(t, a, b) == SubSeq(t, a + 1, b)

\* str.rfind(". "): highest 0-based index of the substring, -1 if absent
RFindPeriod(t) ==
    LET found == {i \in 0..(Len(t) - 2) : t[i + 1] = "." /\ t[i + 2] = " "}
    IN  IF found = {} THEN -1 ELSE CHOOSE i \in found : \A j \in found : j <= i

\* str.rfind("\n")
RFindNewline(t) ==
    LET found == {i \in 0..(Len(t) - 1) : t[i + 1] = "\n"}
    IN  IF found = {} THEN -1 ELSE CHOOSE i \in found : \A j \in found : j <= i

\* faulty variant: the chunk text is stored without .strip()
ChunkTextNoStrip(t, a, b) == Slice(t, a, b)

\* chunk_text.strip() with chunk_text = text[start:end]
ChunkText(t, a, b) == Strip(Slice(t, a, b))

Chunk(doc, page, a, b, t, parent, title) ==
    [id |-> <<doc, page, a, b>>, doc_id |-> doc, page |-> page,
     start_char |-> a, end_char |-> b, text |-> t,
     parent_text |-> parent, section_title |-> title]

\* end of the window starting at a: start + chunk_size capped at the end of
\* the text, pulled back to the last ". " or newline of the window when that
\* lies beyond the window's middle
WindowEnd(t, a, size) ==
    LET end        == Min(a + size, Len(t))
        chunk_text == Slice(t, a, end)
        break_at   == Max(RFindPeriod(chunk_text), RFindNewline(chunk_text))
    IN  IF end < Len(t) /\ Len(chunk_text) > break_min_len /\ 2 * break_at > Len(chunk_text)
        THEN a + break_at + 1
        ELSE end

\* faulty variant: the loop goes on when the window does not advance
LoopStopsNoGuard(end, t, next, cs) == end >= Len(t)

\* the two break statements of the loop, after the chunk was appended to cs
LoopStops(end, t, next, cs) == end >= Len(t) \/ next <= Last(cs).start_char

\* one iteration of the while loop from offset a
LoopBody(cs, doc, page, t, title, size, ov, a) ==
    LET end  == WindowEnd(t, a, size)
        new  == Append(cs, Chunk(doc, page, a, end, ChunkText(t, a, end), t, title))
        next == IF end >= Len(t) THEN a ELSE Max(end - ov, 0)
    IN  [chunks |-> new, start |-> next, stop |-> LoopStops(end, t, next, new)]

\* _split_into_chunks up to the loop: nothing for an empty section, one chunk
\* for a section that fits the chunk size
SplitHead(cs, doc, page, sec, title, size) ==
    LET t == Strip(sec)
    IN  IF t = <<>> THEN [chunks |-> cs, loop |-> FALSE]
        ELSE IF Len(t) <= size
        THEN [chunks |-> Append(cs, Chunk(doc, page, 0, Len(t), t, t, title)), loop |-> FALSE]
        ELSE [chunks |-> cs, loop |-> TRUE]

SplitCall ==
    /\ split_pc = "call"
    /\ LET h == SplitHead(chunks, 1, 1, section_text, <<>>, chunk_size)
       IN  /\ chunks' = h.chunks
           /\ split_pc' = IF h.loop THEN "loop" ELSE "done"
    /\ start' = 0
    /\ UNCHANGED <<section_text, chunk_size, overlap, bufvars, ragvars, concvars, wsvars,
                   ingvars>>

SplitLoop ==
    /\ split_pc = "loop"
    /\ IF start < Len(Strip(section_text))
       THEN LET b == LoopBody(chunks, 1, 1, Strip(section_text), <<>>, chunk_size,
                              overlap, start)
            IN  /\ chunks' = b.chunks
                /\ start' = b.start
                /\ split_pc' = IF b.stop THEN "done" ELSE "loop"
       ELSE /\ split_pc' = "done"
            /\ UNCHANGED <<chunks, start>>
    /\ UNCHANGED <<section_text, chunk_size, overlap, bufvars, ragvars, concvars, wsvars,
                   ingvars>>

Rep(c, n) == [i \in 1..n |-> c]

Chars == {"a", ".", " ", "\n"}

\* every text of at most MaxShort characters
ShortTexts == UNION {[1..n -> Chars] : n \in 0..MaxShort}

Runs == {Rep("a", 1), Rep("a", LongRun)}

Seps == {<<".", " ">>, <<"\n">>, <<" ">>}

\* two or three runs of letters joined by a sentence end, a newline or a space
LongTexts ==
    {w1 \o s1 \o w2 : w1 \in Runs, s1 \in Seps, w2 \in Runs}
        \cup {w1 \o s1 \o w2 \o s2 \o w3 :
                w1 \in Runs, s1 \in Seps, w2 \in Runs, s2 \in Seps, w3 \in Runs}

\* short texts under small chunk sizes, long texts under a chunk size that
\* lets the sentence-break search run; every overlap below the chunk size
SplitInputs ==
    {[text |-> t, size |-> n, ov |-> o] :
        t \in ShortTexts, n \in 1..MaxSmallChunk, o \in 0..(MaxSmallChunk - 1)}
    \cup {[text |-> t, size |-> break_min_len + 1, ov |-> o] :
            t \in LongTexts, o \in 0..break_min_len}

InitChunk ==
    /\ \E in \in {i \in SplitInputs : i.ov < i.size} :
           /\ section_text = in.text
           /\ chunk_size = in.size
           /\ overlap = in.ov
    /\ start = 0
    /\ chunks = <<>>
    /\ split_pc = "call"
    /\ transcript_turns = MaxWindow
    /\ buffers = [s \in Sessions |-> <<>>]
    /\ db = [s \in Sessions |-> <<>>]
    /\ calls = [s \in Sessions |-> <<>>]
    /\ since = [s \in Sessions |-> 0]
    /\ hydrated = [s \in Sessions |-> FALSE]
    /\ n_adds = 0
    /\ last_op = NoOp
    /\ result = <<>>
    /\ RagIdle
    /\ ConcIdle
    /\ WsIdle
    /\ IngestIdle

NextChunk ==
    \/ SplitCall
    \/ SplitLoop

SpecChunk == InitChunk /\ [][NextChunk]_vars

\* the loop is a sequential computation: it keeps running until it returns.
\* This is weak fairness of NextChunk, WF_vars(NextChunk), with
\* ENABLED <<NextChunk>>_vars written out as split_pc # "done".
SpecChunkFair == SpecChunk /\ ([]<>(split_pc = "done") \/ []<><<NextChunk>>_vars)

-----------------------------------------------------------------------------
(* Properties of _split_into_chunks *)

\* the section text after trimming: the text the offsets refer to
Trimmed == Strip(section_text)

IsSubstring(t, parent) ==
    \E k \in 0..(Len(parent) - Len(t)) : Slice(parent, k, k + Len(t)) = t

\* C13: every chunk emitted for a section has 0 <= start_char < end_char <=
\* len(trimmed section); its text is the trimmed section sliced
\* [start_char:end_char] and then trimmed; parent_text is the whole trimmed
\* section, so the text is a verbatim substring of parent_text.
OffsetsValid ==
    \A i \in 1..Len(chunks) :
        LET c == chunks[i]
        IN  /\ 0 <= c.start_char
            /\ c.start_char < c.end_char
            /\ c.end_char <= Len(Trimmed)
            /\ c.text = Strip(Slice(Trimmed, c.start_char, c.end_char))
            /\ c.parent_text = Trimmed
            /\ IsSubstring(c.text, c.parent_text)

\* C13 witness: the splitter returned chunks of which one was cut at a
\* sentence break and one lost whitespace to the trim.
BrokenAndTrimmedReached ==
    /\ split_pc = "done"
    /\ \E i \in 1..Len(chunks) :
           /\ chunks[i].end_char < Len(Trimmed)
           /\ chunks[i].end_char - chunks[i].start_char < chunk_size
    /\ \E j \in 1..Len(chunks) :
           /\ chunks[j].text # <<>>
           /\ Len(chunks[j].text) < chunks[j].end_char - chunks[j].start_char

\* C14: every chunk emitted has non-empty trimmed text, and a section with no
\* surviving content emits no chunk.
ChunkTextNonEmpty ==
    /\ \A i \in 1..Len(chunks) : Strip(chunks[i].text) # <<>>
    /\ (split_pc = "done" /\ Trimmed = <<>>) => chunks = <<>>

\* C15: the splitter returns; the start offsets of successively emitted
\* chunks strictly increase; and the loop stops only when the window has
\* reached the end of the text or the next start would not pass the start of
\* the chunk just emitted.
SplitterTerminates ==
    /\ <>(split_pc = "done")
    /\ [][(chunks # <<>> /\ Len(chunks') > Len(chunks)) =>
              Last(chunks').start_char > Last(chunks).start_char]_vars
    /\ [][(split_pc = "loop" /\ split_pc' = "done") =>
              \/ Last(chunks').end_char = Len(Trimmed)
              \/ Max(Last(chunks').end_char - overlap, 0) <= Last(chunks').start_char]_vars

\* C15 witness: after two or more chunks the loop stopped short of the end of
\* the text, because the next window would not have advanced.
StoppedWithoutAdvanceReached ==
    /\ split_pc = "done"
    /\ Len(chunks) >= 2
    /\ Last(chunks).end_char < Len(Trimmed)

\* C19: for a section longer than the chunk size the spans of the emitted
\* chunks cover the trimmed section: the first starts at 0, each next one
\* starts at or before the end of the one before, the last ends at the end of
\* the text.
SectionCovered ==
    (split_pc = "done" /\ Len(Trimmed) > chunk_size) =>
        /\ chunks # <<>>
        /\ chunks[1].start_char = 0
        /\ \A i \in 1..(Len(chunks) - 1) : chunks[i + 1].start_char <= chunks[i].end_char
        /\ Last(chunks).end_char = Len(Trimmed)

-----------------------------------------------------------------------------
(* services/document.py: _chunk_pages *)

\* a heading is shorter than this
heading_max_len == 120

chunk_size_tokens == 300
chunk_overlap_pct == 15

\* settings.chunk_size_chars
ChunkSizeChars(tokens) == tokens * 4

\* settings.chunk_overlap_chars: int(chunk_size_chars * chunk_overlap_pct),
\* chunk_overlap_pct held in hundredths
ChunkOverlapChars(tokens) == (ChunkSizeChars(tokens) * chunk_overlap_pct) \div 100

Upper == {"T"}
Lower == {"a"}

\* str.isupper(): no lowercase character and at least one cased character
IsUpper(t) ==
    /\ \A i \in 1..Len(t) : t[i] \notin Lower
    /\ \E i \in 1..Len(t) : t[i] \in Upper

\* str.istitle(): uppercase characters follow only uncased ones, lowercase
\* characters only cased ones, and there is at least one cased character
IsTitle(t) ==
    /\ \A i \in 1..Len(t) :
           LET prev_cased == i > 1 /\ t[i - 1] \in (Upper \cup Lower)
           IN  /\ t[i] \in Upper => ~prev_cased
               /\ t[i] \in Lower => prev_cased
    /\ \E i \in 1..Len(t) : t[i] \in (Upper \cup Lower)

\* the heading test of _chunk_pages; len(para.split("\n")) == 1 says the
\* paragraph holds no newline
IsHeading(para) ==
    /\ \A i \in 1..Len(para) : para[i] # "\n"
    /\ Len(para) < heading_max_len
    /\ (IsUpper(para) \/ IsTitle(para))
    /\ ~(para # <<>> /\ Last(para) = ".")

\* str.split("\n\n"): piece is the part read since the last separator
RECURSIVE SplitBlankLine(_, _)
SplitBlankLine(t, piece) ==
    IF t = <<>> THEN <<piece>>
    ELSE IF Len(t) >= 2 /\ t[1] = "\n" /\ t[2] = "\n"
    THEN <<piece>> \o SplitBlankLine(SubSeq(t, 3, Len(t)), <<>>)
    ELSE SplitBlankLine(Tail(t), Append(piece, Head(t)))

RECURSIVE StripNonBlank(_)
StripNonBlank(pieces) ==
    IF pieces = <<>> THEN <<>>
    ELSE IF Strip(Head(pieces)) = <<>> THEN StripNonBlank(Tail(pieces))
    ELSE <<Strip(Head(pieces))>> \o StripNonBlank(Tail(pieces))

\* [p.strip() for p in full_text.split("\n\n") if p.strip()]
Paragraphs(full_text) == StripNonBlank(SplitBlankLine(full_text, <<>>))

\* the while loop of _split_into_chunks run from offset a to its exit
RECURSIVE SplitLoopRun(_, _, _, _, _, _, _, _)
SplitLoopRun(cs, doc, page, t, title, size, ov, a) ==
    IF a < Len(t)
    THEN LET b == LoopBody(cs, doc, page, t, title, size, ov, a)
         IN  IF b.stop THEN b.chunks
             ELSE SplitLoopRun(b.chunks, doc, page, t, title, size, ov, b.start)
    ELSE cs

\* _split_into_chunks: the list cs with the chunks of the section appended
SplitIntoChunks(cs, doc, page, sec, title, size, ov) ==
    LET h == SplitHead(cs, doc, page, sec, title, size)
    IN  IF h.loop THEN SplitLoopRun(h.chunks, doc, page, Strip(sec), title, size, ov, 0)
        ELSE h.chunks

\* the paragraph loop of one page and the flush after it; cur is
\* current_section, title is section_title
RECURSIVE ParagraphLoop(_, _, _, _, _, _, _, _)
ParagraphLoop(cs, doc, page, paras, cur, title, size, ov) ==
    IF paras = <<>>
    THEN IF Strip(cur) # <<>> THEN SplitIntoChunks(cs, doc, page, cur, title, size, ov)
         ELSE cs
    ELSE LET para == Head(paras)
             more == cur \o para \o <<"\n", "\n">>
         IN  IF IsHeading(para)
             THEN IF Strip(cur) # <<>>
                  THEN ParagraphLoop(SplitIntoChunks(cs, doc, page, cur, title, size, ov),
                                     doc, page, Tail(paras), <<>>, para, size, ov)
                  ELSE ParagraphLoop(cs, doc, page, Tail(paras), cur, para, size, ov)
             ELSE IF Len(more) >= size * 2
                  THEN ParagraphLoop(SplitIntoChunks(cs, doc, page, more, title, size, ov),
                                     doc, page, Tail(paras), <<>>, title, size, ov)
                  ELSE ParagraphLoop(cs, doc, page, Tail(paras), more, title, size, ov)

\* the page loop; pages_text holds (page_num, full_text) pairs
RECURSIVE PageLoop(_, _, _, _, _)
PageLoop(cs, doc, pages_text, size, ov) ==
    IF pages_text = <<>> THEN cs
    ELSE PageLoop(ParagraphLoop(cs, doc, Head(pages_text)[1],
                                Paragraphs(Head(pages_text)[2]), <<>>, <<>>, size, ov),
                  doc, Tail(pages_text), size, ov)

\* _chunk_pages
ChunkPages(doc, pages_text, tokens) ==
    PageLoop(<<>>, doc, pages_text, ChunkSizeChars(tokens), ChunkOverlapChars(tokens))

-----------------------------------------------------------------------------
(* services/document.py: ingest_document, one invocation on empty stores *)

MaxParas == 3

SUPPORTED_EXTENSIONS == {".pdf"}

\* os.path.splitext(filename)[1] of the uploaded file
Exts == {".pdf", ".PDF", ".txt", ""}

\* str.lower() on the extensions above
LowerCase(ext) == IF ext = ".PDF" THEN ".pdf" ELSE ext

ParaChoices == {<<"a">>, <<".">>, <<"T">>, <<"a", "a", "a">>}

\* the paragraphs joined by blank lines
RECURSIVE JoinParas(_)
JoinParas(paras) ==
    IF Len(paras) = 1 THEN paras[1]
    ELSE paras[1] \o <<"\n", "\n">> \o JoinParas(Tail(paras))

\* page texts of one to MaxParas paragraphs
PageTexts == {JoinParas(ps) : ps \in UNION {[1..n -> ParaChoices] : n \in 1..MaxParas}}

BlankPage == <<" ">>

\* the pages of an uploaded PDF, as page.extract_text() gives them
PdfPages ==
    {<<p>> : p \in PageTexts \cup {BlankPage}}
        \cup {<<p, q>> : p \in PageTexts \cup {BlankPage}, q \in {BlankPage, <<"a">>, <<"T">>}}

\* the uploaded bytes: none, bytes pdfplumber cannot open, or a PDF
Contents ==
    {[kind |-> "empty", pages |-> <<>>], [kind |-> "garbage", pages |-> <<>>]}
        \cup {[kind |-> "pdf", pages |-> ps] : ps \in PdfPages}

\* _extract_text: (page number, text) of the pages whose text is not blank
RECURSIVE ExtractFrom(_, _)
ExtractFrom(pages, i) ==
    IF i > Len(pages) THEN <<>>
    ELSE IF Strip(pages[i]) # <<>> THEN <<<<i, pages[i]>>>> \o ExtractFrom(pages, i + 1)
    ELSE ExtractFrom(pages, i + 1)

ExtractText(pages) == ExtractFrom(pages, 1)

\* _chunk_id_to_point_id: the SHA-256 of the chunk id, equal for equal ids
\* and taken to differ for different ids
ChunkIdToPointId(chunk_id) == <<"sha256", chunk_id>>

\* client.upsert of one point: a point with the same id is replaced
UpsertPoint(store, c) ==
    {p \in store : p.id # ChunkIdToPointId(c.id)}
        \cup {[id |-> ChunkIdToPointId(c.id), chunk_id |-> c.id, doc_id |-> c.doc_id,
               text |-> c.text]}

\* upsert_chunks: at most 100 points go in one batch, here always one batch
RECURSIVE UpsertChunks(_, _)
UpsertChunks(store, cs) ==
    IF cs = <<>> THEN store ELSE UpsertChunks(UpsertPoint(store, Head(cs)), Tail(cs))

\* INSERT INTO chunks ... ON CONFLICT (id) DO UPDATE SET text = EXCLUDED.text
SaveChunk(rows, c) ==
    IF \E r \in rows : r.id = c.id
    THEN {IF r.id = c.id THEN [r EXCEPT !.text = c.text] ELSE r : r \in rows}
    ELSE rows \cup {[id |-> c.id, doc_id |-> c.doc_id, text |-> c.text,
                     section_title |-> c.section_title]}

\* save_chunks: one INSERT per chunk, each committed on its own
RECURSIVE SaveChunks(_, _)
SaveChunks(rows, cs) ==
    IF cs = <<>> THEN rows ELSE SaveChunks(SaveChunk(rows, Head(cs)), Tail(cs))

Fail(msg) == [ing EXCEPT !.pc = "failed", !.error = msg]

\* ingest_document up to its first await: validation, the raw file, the text
IngestStart ==
    /\ ing.pc = "start"
    /\ IF LowerCase(ing.ext) \notin SUPPORTED_EXTENSIONS
       THEN ing' = Fail("unsupported file type") /\ UNCHANGED raw_files
       ELSE IF ing.content.kind = "empty"
       THEN ing' = Fail("empty file") /\ UNCHANGED raw_files
       ELSE /\ raw_files' = raw_files \cup {1}
            /\ IF ing.content.kind = "garbage"
               THEN ing' = [Fail("not a pdf") EXCEPT !.doc = 1]
               ELSE LET pages_text == ExtractText(ing.content.pages)
                    IN  IF pages_text = <<>>
                        THEN ing' = [Fail("no text extracted") EXCEPT !.doc = 1]
                        ELSE ing' = [ing EXCEPT !.pc = "save_document", !.doc = 1,
                                                !.pages_text = pages_text]
    /\ UNCHANGED <<documents, chunk_rows, index_points, bufvars, ragvars, concvars,
                   wsvars, chunkvars>>

\* await save_document(doc), then _chunk_pages
IngestSaveDocument(ok) ==
    /\ ing.pc = "save_document"
    /\ IF ~ok
       THEN ing' = Fail("database error") /\ UNCHANGED documents
       ELSE /\ documents' = documents \cup {ing.doc}
            /\ LET cs == ChunkPages(ing.doc, ing.pages_text, ing.tokens)
               IN  IF cs = <<>>
                   THEN ing' = Fail("no chunks produced")
                   ELSE ing' = [ing EXCEPT !.pc = "embed", !.chunks = cs]
    /\ UNCHANGED <<chunk_rows, index_points, raw_files, bufvars, ragvars, concvars,
                   wsvars, chunkvars>>

\* await embed_texts(texts_to_embed)
IngestEmbed(ok) ==
    /\ ing.pc = "embed"
    /\ ing' = IF ok THEN [ing EXCEPT !.pc = "upsert"] ELSE Fail("embedding error")
    /\ UNCHANGED <<documents, chunk_rows, index_points, raw_files, bufvars, ragvars,
                   concvars, wsvars, chunkvars>>

\* await upsert_chunks(chunks, embeddings)
IngestUpsert(ok) ==
    /\ ing.pc = "upsert"
    /\ IF ok
       THEN /\ index_points' = UpsertChunks(index_points, ing.chunks)
            /\ ing' = [ing EXCEPT !.pc = "save_chunks"]
       ELSE /\ ing' = Fail("index error")
            /\ UNCHANGED index_points
    /\ UNCHANGED <<documents, chunk_rows, raw_files, bufvars, ragvars, concvars, wsvars,
                   chunkvars>>

\* await save_chunks(chunks): the first k inserts succeed
IngestSaveChunks(k) ==
    /\ ing.pc = "save_chunks"
    /\ k \in 0..Len(ing.chunks)
    /\ chunk_rows' = SaveChunks(chunk_rows, SubSeq(ing.chunks, 1, k))
    /\ ing' = IF k = Len(ing.chunks) THEN [ing EXCEPT !.pc = "done"]
              ELSE Fail("database error")
    /\ UNCHANGED <<documents, index_points, raw_files, bufvars, ragvars, concvars, wsvars,
                   chunkvars>>

InitIngest ==
    /\ documents = {}
    /\ chunk_rows = {}
    /\ index_points = {}
    /\ raw_files = {}
    /\ \E ext \in Exts, content \in Contents, tokens \in {1, chunk_size_tokens} :
           ing = [NoIngest EXCEPT !.pc = "start", !.ext = ext, !.content = content,
                                  !.tokens = tokens]
    /\ transcript_turns = MaxWindow
    /\ buffers = [s \in Sessions |-> <<>>]
    /\ db = [s \in Sessions |-> <<>>]
    /\ calls = [s \in Sessions |-> <<>>]
    /\ since = [s \in Sessions |-> 0]
    /\ hydrated = [s \in Sessions |-> FALSE]
    /\ n_adds = 0
    /\ last_op = NoOp
    /\ result = <<>>
    /\ RagIdle
    /\ ConcIdle
    /\ WsIdle
    /\ ChunkIdle

NextIngest ==
    \/ IngestStart
    \/ \E ok \in BOOLEAN : IngestSaveDocument(ok)
    \/ \E ok \in BOOLEAN : IngestEmbed(ok)
    \/ \E ok \in BOOLEAN : IngestUpsert(ok)
    \/ \E k \in 0..Len(ing.chunks) : IngestSaveChunks(k)

SpecIngest == InitIngest /\ [][NextIngest]_vars

-----------------------------------------------------------------------------
(* Properties of ingest_document *)

\* C12: when ingest_document has failed, the relational store holds no
\* Document row and no Chunk row of the attempt and the index no point of it.
FailedIngestLeavesNoRecord ==
    ing.pc = "failed" =>
        /\ ing.doc \notin documents
        /\ \A r \in chunk_rows : r.doc_id # ing.doc
        /\ \A p \in index_points : p.doc_id # ing.doc

\* C18: two different chunks emitted by one _chunk_pages call have different
\* ids, and after the ingestion every chunk has its own row and its own point
\* holding its text: none was overwritten by another.
ChunkIdsUnique ==
    /\ \A i, j \in 1..Len(ing.chunks) :
           ing.chunks[i] # ing.chunks[j] => ing.chunks[i].id # ing.chunks[j].id
    /\ ing.pc = "done" =>
           \A i \in 1..Len(ing.chunks) :
               /\ \E r \in chunk_rows : r.id = ing.chunks[i].id /\ r.text = ing.chunks[i].text
               /\ \E p \in index_points :
                      p.chunk_id = ing.chunks[i].id /\ p.text = ing.chunks[i].text

=============================================================================
